---- MODULE Spec2Model ----
(***************************************************************************)
(* nnfasta: random access to the records of memory mapped FASTA files.     *)
(*                                                                         *)
(* A byte string is a sequence of one-character strings; the token "xE9"   *)
(* stands for one byte outside the 7-bit ASCII range.  Python positions    *)
(* are 0-based, TLA+ sequences 1-based: b[p + 1] is the byte at offset p.  *)
(* An outcome is [st, val, reads]: st is "ok" or the name of the exception *)
(* raised, val the sequence of Records returned (a single Record is a      *)
(* sequence of length one), reads the number of slices taken from a mmap.  *)
(***************************************************************************)
EXTENDS Integers, Sequences, FiniteSets, TLC

VARIABLES
    fastas,     \* the RandomFasta objects, each [fasta |-> bytes, pos |-> spans]
    _cumsum,    \* CollectionFasta._cumsum over fastas
    _indexes,   \* LazyFasta._indexes over nnfastas(files); <<>>: no view built
    result      \* the last call: [op, target, arg, out]

vars == <<fastas, _cumsum, _indexes, result>>

----------------------------------------------------------------------------
(* Bounds of the model *)

MaxBytes == 5
MaxRecs == 2
MaxFiles == 2
MaxIdx == 2
MaxP == 2

----------------------------------------------------------------------------
(* Bytes *)

LowerCase == <<"a", "b", "c", "d", "e", "f", "g", "h", "i", "j", "k", "l", "m",
               "n", "o", "p", "q", "r", "s", "t", "u", "v", "w", "x", "y", "z">>

UpperCase == <<"A", "B", "C", "D", "E", "F", "G", "H", "I", "J", "K", "L", "M",
               "N", "O", "P", "Q", "R", "S", "T", "U", "V", "W", "X", "Y", "Z">>

Digits == {"0", "1", "2", "3", "4", "5", "6", "7", "8", "9"}

Range(s) == {s[i] : i \in DOMAIN s}

\* re: \w for a bytes pattern is [a-zA-Z0-9_]
IsWord(c) == c \in Range(LowerCase) \cup Range(UpperCase) \cup Digits \cup {"_"}

\* bytes.strip() strips ASCII whitespace
IsSpace(c) == c \in {" ", "\t", "\n", "\r", "\f"}

\* every token but "xE9" is a 7-bit byte
IsAscii(c) == c # "xE9"

\* bytes.upper(): only a-z change
upper_byte(c) ==
    IF \E i \in DOMAIN LowerCase : LowerCase[i] = c
    THEN UpperCase[CHOOSE i \in DOMAIN LowerCase : LowerCase[i] = c]
    ELSE c

upper(b) == [i \in DOMAIN b |-> upper_byte(b[i])]

\* b[s:e] for 0 <= s <= e <= len(b)
Slice(b, s, e) == SubSeq(b, s + 1, e)

\* bytes.strip()
strip(b) ==
    LET keep == {i \in DOMAIN b : ~IsSpace(b[i])}
    IN  IF keep = {} THEN <<>>
        ELSE SubSeq(b, CHOOSE i \in keep : \A j \in keep : i <= j,
                       CHOOSE i \in keep : \A j \in keep : i >= j)

\* bytes.decode("ascii"): fails on a byte outside the 7-bit range
decodable(b) == \A i \in DOMAIN b : IsAscii(b[i])

\* WHITE.sub(b"", s) with WHITE = \W+: every non-word byte is dropped
remove_white(s) == SelectSeq(s, IsWord)

\* EOL.search(b).start(): offset of the first \n or \r, -1 when there is none
EOL_search(b) ==
    LET hits == {i \in DOMAIN b : b[i] \in {"\n", "\r"}}
    IN  IF hits = {} THEN -1
        ELSE (CHOOSE i \in hits : \A j \in hits : i <= j) - 1

\* desc.split(b" ", maxsplit=1): the pieces around the first space
split_space(desc) ==
    LET hits == {i \in DOMAIN desc : desc[i] = " "}
    IN  IF hits = {} THEN <<desc>>
        ELSE LET i == CHOOSE i \in hits : \A j \in hits : i <= j
             IN  <<SubSeq(desc, 1, i - 1), SubSeq(desc, i + 1, Len(desc))>>

\* PREFIX.finditer(b) from offset p, PREFIX = (\n>|\r>|^>) with re.M: the
\* alternatives are tried in order at each offset, ^ matches at offset 0 and
\* after a \n, and the scan resumes at the end of a match.
RECURSIVE PREFIX_finditer(_, _)
PREFIX_finditer(b, p) ==
    IF p >= Len(b) THEN <<>>
    ELSE IF b[p + 1] = "\n" /\ p + 1 < Len(b) /\ b[p + 2] = ">"
         THEN <<[start |-> p, end |-> p + 2]>> \o PREFIX_finditer(b, p + 2)
    ELSE IF b[p + 1] = "\r" /\ p + 1 < Len(b) /\ b[p + 2] = ">"
         THEN <<[start |-> p, end |-> p + 2]>> \o PREFIX_finditer(b, p + 2)
    ELSE IF b[p + 1] = ">" /\ (p = 0 \/ b[p] = "\n")
         THEN <<[start |-> p, end |-> p + 1]>> \o PREFIX_finditer(b, p + 1)
    ELSE PREFIX_finditer(b, p + 1)

----------------------------------------------------------------------------
(* RandomFasta *)

Ok(recs, n) == [st |-> "ok", val |-> recs, reads |-> n]
Raise(e, n) == [st |-> e, val |-> <<>>, reads |-> n]

Record(id, description, seq) == [id |-> id, description |-> description, seq |-> seq]

\* the bug of unpacking the matches in the order they were taken
_find_pos_unswapped(fasta) ==
    LET f == PREFIX_finditer(fasta, 0)
    IN  [i \in DOMAIN f |->
            <<f[i].start, IF i < Len(f) THEN f[i + 1].end ELSE Len(fasta)>>]

\* RandomFasta._find_pos: end, start = zip(*f) names the match starts "end" and
\* the match ends "start"; span i runs from the end of match i to the start of
\* match i + 1, or to the end of the file.
_find_pos(fasta) ==
    LET f == PREFIX_finditer(fasta, 0)
    IN  [i \in DOMAIN f |->
            <<f[i].end, IF i < Len(f) THEN f[i + 1].start ELSE Len(fasta)>>]

\* zip(*f) of no match cannot be unpacked: the constructor raises
IsFasta(fasta) == PREFIX_finditer(fasta, 0) # <<>>

RandomFasta(fasta) == [fasta |-> fasta, pos |-> _find_pos(fasta)]

RF_len(rf) == Len(rf.pos)

\* the part of get_idx after the span is read: b = self.fasta[s:e]
parse(b) ==
    LET e == EOL_search(b)
    IN  IF e < 0 THEN Raise("ValueError", 1)
        ELSE LET desc == Slice(b, 0, e)
                 parts == split_space(desc)
                 seq == remove_white(Slice(b, e + 1, Len(b)))
             IN  IF Len(parts) < 2 THEN Raise("ValueError", 1)
                 ELSE IF ~decodable(parts[1]) \/ ~decodable(strip(desc))
                      THEN Raise("UnicodeDecodeError", 1)
                 ELSE Ok(<<Record(parts[1], strip(desc), upper(seq))>>, 1)

\* the bug of slicing the mmap before the position is checked
RF_get_idx_readfirst(rf, idx) ==
    IF idx < 0 /\ -idx > RF_len(rf) THEN Raise("ValueError", 1)
    ELSE LET i == IF idx < 0 THEN RF_len(rf) + idx ELSE idx
         IN  IF i >= RF_len(rf) THEN Raise("IndexError", 1)
             ELSE parse(Slice(rf.fasta, rf.pos[i + 1][1], rf.pos[i + 1][2]))

\* RandomFasta.get_idx
RF_get_idx(rf, idx) ==
    IF idx < 0 /\ -idx > RF_len(rf) THEN Raise("ValueError", 0)
    ELSE LET i == IF idx < 0 THEN RF_len(rf) + idx ELSE idx
         IN  IF i >= RF_len(rf) THEN Raise("IndexError", 0)
             ELSE parse(Slice(rf.fasta, rf.pos[i + 1][1], rf.pos[i + 1][2]))

----------------------------------------------------------------------------
(* CollectionFasta *)

\* the running sum of __init__: _cumsum[k] = len(fastas[1]) + ... + len(fastas[k])
RECURSIVE cumsum_upto(_, _)
cumsum_upto(fs, k) == IF k = 0 THEN 0 ELSE cumsum_upto(fs, k - 1) + RF_len(fs[k])

CollectionFasta(files) ==
    LET fs == [i \in DOMAIN files |-> RandomFasta(files[i])]
    IN  [fastas |-> fs, _cumsum |-> [k \in DOMAIN fs |-> cumsum_upto(fs, k)]]

\* CollectionFasta.__len__: self._cumsum[-1]
CF_len(c) == c._cumsum[Len(c._cumsum)]

\* the bug of bisect_left: an equal entry is not skipped
RECURSIVE bisect_left(_, _, _, _)
bisect_left(a, x, lo, hi) ==
    IF lo >= hi THEN lo
    ELSE LET mid == (lo + hi) \div 2
         IN  IF x <= a[mid + 1] THEN bisect_left(a, x, lo, mid)
             ELSE bisect_left(a, x, mid + 1, hi)

\* bisect.bisect_right(a, x) as the library computes it, from lo = 0, hi = len(a)
RECURSIVE bisect_right(_, _, _, _)
bisect_right(a, x, lo, hi) ==
    IF lo >= hi THEN lo
    ELSE LET mid == (lo + hi) \div 2
         IN  IF x < a[mid + 1] THEN bisect_right(a, x, lo, mid)
             ELSE bisect_right(a, x, mid + 1, hi)

\* the bug of resolving a negative position as len - idx
_map_idx_negated(c, idx) ==
    IF idx < 0 /\ -idx > CF_len(c) THEN [st |-> "ValueError", i |-> 0, k |-> 0]
    ELSE LET x == IF idx < 0 THEN CF_len(c) - idx ELSE idx
             i == bisect_right(c._cumsum, x, 0, Len(c._cumsum))
         IN  IF i > Len(c._cumsum) \/ i >= Len(c.fastas)
             THEN [st |-> "IndexError", i |-> 0, k |-> 0]
             ELSE [st |-> "ok", i |-> x - (IF i > 0 THEN c._cumsum[i] ELSE 0), k |-> i]

\* CollectionFasta._map_idx: the local position i and the child k (0-based);
\* self.fastas[i] raises IndexError when the search runs off the table
_map_idx(c, idx) ==
    IF idx < 0 /\ -idx > CF_len(c) THEN [st |-> "ValueError", i |-> 0, k |-> 0]
    ELSE LET x == IF idx < 0 THEN CF_len(c) + idx ELSE idx
             i == bisect_right(c._cumsum, x, 0, Len(c._cumsum))
         IN  IF i > Len(c._cumsum) \/ i >= Len(c.fastas)
             THEN [st |-> "IndexError", i |-> 0, k |-> 0]
             ELSE [st |-> "ok", i |-> x - (IF i > 0 THEN c._cumsum[i] ELSE 0), k |-> i]

\* CollectionFasta.get_idx
CF_get_idx(c, idx) ==
    LET m == _map_idx(c, idx)
    IN  IF m.st # "ok" THEN Raise(m.st, 0)
        ELSE RF_get_idx(c.fastas[m.k + 1], m.i)

----------------------------------------------------------------------------
(* The objects in use *)

\* the objects of a state: o.fastas and o._cumsum are the CollectionFasta,
\* o._indexes the index list of the LazyFasta
objects == [fastas |-> fastas, _cumsum |-> _cumsum, _indexes |-> _indexes]

\* the CollectionFasta over the files
collection == [fastas |-> fastas, _cumsum |-> _cumsum]

\* nnfastas(fasta_files): one file gives its RandomFasta, several a CollectionFasta
nnfastas(o) == IF Len(o.fastas) = 1 THEN "RandomFasta" ELSE "CollectionFasta"

\* len(self._dataset) and self._dataset[i] of the LazyFasta built over nnfastas
dataset_len_of(o) ==
    IF nnfastas(o) = "RandomFasta" THEN RF_len(o.fastas[1]) ELSE CF_len(o)

dataset_getitem_of(o, i) ==
    IF nnfastas(o) = "RandomFasta" THEN RF_get_idx(o.fastas[1], i)
    ELSE CF_get_idx(o, i)

dataset_len == dataset_len_of(objects)
dataset_getitem(i) == dataset_getitem_of(objects, i)

----------------------------------------------------------------------------
(* LazyFasta *)

\* the bug of comparing with >=: an entry equal to len(dataset) passes
LazyFasta_init_ge(n, indexes) ==
    IF indexes = <<>> THEN "ValueError"
    ELSE IF (\A i \in DOMAIN indexes : n >= indexes[i])
            /\ (\A i \in DOMAIN indexes : indexes[i] >= 0)
         THEN "ok" ELSE "AssertionError"

\* LazyFasta.__init__ over a dataset of n records: max() of no entry raises
\* ValueError, the assert fails unless len(dataset) > max and min >= 0
LazyFasta_init(n, indexes) ==
    IF indexes = <<>> THEN "ValueError"
    ELSE IF (\A i \in DOMAIN indexes : n > indexes[i])
            /\ (\A i \in DOMAIN indexes : indexes[i] >= 0)
         THEN "ok" ELSE "AssertionError"

\* LazyFasta.__len__
LF_len(o) == Len(o._indexes)

\* self._dataset[index[idx]]: index[idx] is list indexing, which resolves a
\* negative idx against len(index) and raises IndexError outside of it
LF_get_idx(o, idx) ==
    IF idx >= LF_len(o) \/ idx < -LF_len(o) THEN Raise("IndexError", 0)
    ELSE dataset_getitem_of(o, o._indexes[(IF idx < 0 THEN LF_len(o) + idx ELSE idx) + 1])

----------------------------------------------------------------------------
(* list and slice access *)

RandomFastaT(k) == [kind |-> "RandomFasta", k |-> k]
CollectionFastaT == [kind |-> "CollectionFasta", k |-> 0]
LazyFastaT == [kind |-> "LazyFasta", k |-> 0]

\* get of one position of a target, among the objects o
get_of(o, t, idx) ==
    CASE t.kind = "RandomFasta" -> RF_get_idx(o.fastas[t.k], idx)
      [] t.kind = "CollectionFasta" -> CF_get_idx(o, idx)
      [] t.kind = "LazyFasta" -> LF_get_idx(o, idx)

len_of(o, t) ==
    CASE t.kind = "RandomFasta" -> RF_len(o.fastas[t.k])
      [] t.kind = "CollectionFasta" -> CF_len(o)
      [] t.kind = "LazyFasta" -> LF_len(o)

get(t, idx) == get_of(objects, t, idx)
len(t) == len_of(objects, t)

\* the bug of visiting the positions in sorted order (grouped by child)
RECURSIVE sorted(_)
sorted(s) ==
    IF s = <<>> THEN <<>>
    ELSE LET m == CHOOSE i \in DOMAIN s : \A j \in DOMAIN s : s[i] <= s[j]
         IN  <<s[m]>> \o sorted([j \in 1..(Len(s) - 1) |-> IF j < m THEN s[j] ELSE s[j + 1]])

\* [get(i) for i in idxs]: the positions are taken in order, the first
\* exception ends the comprehension
RECURSIVE get_each(_, _, _)
get_each(o, t, idxs) ==
    IF idxs = <<>> THEN Ok(<<>>, 0)
    ELSE LET r == get_of(o, t, Head(idxs))
         IN  IF r.st # "ok" THEN r
             ELSE LET rest == get_each(o, t, Tail(idxs))
                  IN  [st |-> rest.st,
                       val |-> IF rest.st = "ok" THEN r.val \o rest.val ELSE <<>>,
                       reads |-> r.reads + rest.reads]

get_each_sorted(o, t, idxs) == get_each(o, t, sorted(idxs))

\* __getitems__ and __getitem__ of a list
getitems(o, t, idxs) == get_each(o, t, idxs)

\* None is <<>>, a value v is <<v>>; Python's "x or d" is d for None and for 0
None == <<>>
Some(v) == <<v>>
or(x, d) == IF x = None THEN d ELSE IF x[1] = 0 THEN d ELSE x[1]

\* list(range(start, stop, step)) for step >= 1
range(start, stop, step) ==
    LET n == IF stop <= start THEN 0 ELSE (stop - start + step - 1) \div step
    IN  [j \in 1..n |-> start + (j - 1) * step]

\* __getitem__ of a slice:
\* range(idx.start, idx.stop or len(self), idx.step or 1)
getslice(o, t, start, stop, step) ==
    get_each(o, t, range(start, or(stop, len_of(o, t)), or(step, 1)))

----------------------------------------------------------------------------
(* The files *)

\* all sequences over S of length lo .. hi
SeqsOf(S, lo, hi) == UNION {[1..n -> S] : n \in lo..hi}

RECURSIVE Concat(_)
Concat(ss) == IF ss = <<>> THEN <<>> ELSE Head(ss) \o Concat(Tail(ss))

\* the file of the documented scenario: >seq1 desc one\nACGT\nAC\n>seq2\nggtt\n
Scenario ==
    <<">", "s", "e", "q", "1", " ", "d", "e", "s", "c", " ", "o", "n", "e", "\n",
      "A", "C", "G", "T", "\n", "A", "C", "\n",
      ">", "s", "e", "q", "2", "\n", "g", "g", "t", "t", "\n">>

\* record texts: a plain record, a header without whitespace, with a leading
\* space, with a leading tab and a gap in the sequence, with repeated and
\* trailing spaces and \r\n line ends, with an inner tab and \r line ends, with
\* a byte that is not ASCII, without a sequence, and without a line end
Chunks ==
    { <<">", "a", " ", "b", "\n", "A", "c", "\n">>,
      <<">", "a", "\n", "A", "C", "\n">>,
      <<">", " ", "a", " ", "b", "\n", "A", "C", "\n">>,
      <<">", "\t", "a", " ", "b", "\n", "A", "-", "C", "\n">>,
      <<">", "a", " ", " ", "b", " ", "\r", "\n", "A", "C", "\r", "\n">>,
      <<">", "a", "\t", "b", " ", "c", "\r", "A", "\r", "C", "\r">>,
      <<">", "a", " ", "xE9", "\n", "A", "xE9", "C", "\n">>,
      <<">", "a", " ", "b", "\n">>,
      <<">", "a", " ", "b">> }

\* every short byte string over the bytes that decide the scan
ScanBytes == {">", "\n", "\r", "a"}

\* the files a single RandomFasta is built over: the constructor raises on a
\* file without a marker
ParseFiles ==
    {f \in {Scenario}
           \cup {Concat(cs) : cs \in SeqsOf(Chunks, 1, MaxRecs)}
           \cup SeqsOf(ScanBytes, 1, MaxBytes) : IsFasta(f)}

\* the files of the collections: one malformed record (no line end), and two
\* well-formed records
FileA == <<">", "a", " ", "b">>
FileB == <<">", "c", " ", "d", "\n", "G", "g", "\n", ">", "e", " ", "f", "\r", "\n", "T", "\n">>
Corpus == {FileA, FileB}

----------------------------------------------------------------------------
(* Arguments *)

IntArg(i) == [type |-> "int", idx |-> i, list |-> <<>>, stop |-> None, step |-> None]
ListArg(l) == [type |-> "list", idx |-> 0, list |-> l, stop |-> None, step |-> None]
SliceArg(s, e, st) == [type |-> "slice", idx |-> s, list |-> <<>>, stop |-> e, step |-> st]

\* positions: every int from one below -n to n
Ints(n) == (0 - n - 1)..n
\* lists of valid positions, in any order, with repeats
Lists(n) == SeqsOf(0..(n - 1), 0, MaxP)
\* slices with an explicit start, a stop and a step that may be left out
Slices(n) ==
    {SliceArg(s, e, st) : s \in 0..n, e \in {None} \cup {Some(v) : v \in 0..n},
                          st \in {None, Some(1), Some(2)}}

Args(n) == {IntArg(i) : i \in Ints(n)} \cup {ListArg(l) : l \in Lists(n)} \cup Slices(n)

\* __getitem__: isinstance(idx, int), isinstance(idx, list), else a slice
getitem(o, t, arg) ==
    CASE arg.type = "int" -> get_of(o, t, arg.idx)
      [] arg.type = "list" -> getitems(o, t, arg.list)
      [] arg.type = "slice" -> getslice(o, t, arg.idx, arg.stop, arg.step)

Call(op, t, arg, out) == [op |-> op, target |-> t, arg |-> arg, out |-> out]

NoCall == Call("none", CollectionFastaT, IntArg(0), Ok(<<>>, 0))

----------------------------------------------------------------------------
(* The state machine *)

\* the objects built over 1 .. MaxFiles files of the corpus, no view yet
Init ==
    \E files \in SeqsOf(Corpus, 1, MaxFiles) :
        /\ fastas = CollectionFasta(files).fastas
        /\ _cumsum = CollectionFasta(files)._cumsum
        /\ _indexes = <<>>
        /\ result = NoCall

\* one RandomFasta over one file
InitParse ==
    \E f \in ParseFiles :
        /\ fastas = CollectionFasta(<<f>>).fastas
        /\ _cumsum = CollectionFasta(<<f>>)._cumsum
        /\ _indexes = <<>>
        /\ result = NoCall

\* Calls come one at a time (result = NoCall).  While a LazyFasta is in use the
\* data is read through it or by get_idx; __getitem__ and __getitems__ of the
\* dataset are called when no view is held.

\* RandomFasta.__getitem__
RF_getitem ==
    /\ result = NoCall
    /\ _indexes = <<>>
    /\ \E k \in DOMAIN fastas : \E arg \in Args(RF_len(fastas[k])) :
        /\ result' = Call("getitem", RandomFastaT(k), arg,
                          getitem(objects, RandomFastaT(k), arg))
        /\ UNCHANGED <<fastas, _cumsum, _indexes>>

\* RandomFasta.__getitems__
RF_getitems ==
    /\ result = NoCall
    /\ _indexes = <<>>
    /\ \E k \in DOMAIN fastas : \E l \in Lists(RF_len(fastas[k])) :
        /\ result' = Call("getitems", RandomFastaT(k), ListArg(l),
                          getitems(objects, RandomFastaT(k), l))
        /\ UNCHANGED <<fastas, _cumsum, _indexes>>

\* the bug of forgetting the span of a record that could not be parsed
CF_getitem_forgetful ==
    /\ result = NoCall
    /\ _indexes = <<>>
    /\ \E arg \in Args(CF_len(collection)) :
        LET out == getitem(objects, CollectionFastaT, arg)
        IN  /\ result' = Call("getitem", CollectionFastaT, arg, out)
            /\ fastas' = IF out.st = "ValueError" /\ out.reads > 0
                          THEN [fastas EXCEPT ![1].pos = Tail(@)]
                          ELSE fastas
            /\ UNCHANGED <<_cumsum, _indexes>>

\* CollectionFasta.__getitem__
CF_getitem ==
    /\ result = NoCall
    /\ _indexes = <<>>
    /\ \E arg \in Args(CF_len(collection)) :
        /\ result' = Call("getitem", CollectionFastaT, arg,
                          getitem(objects, CollectionFastaT, arg))
        /\ UNCHANGED <<fastas, _cumsum, _indexes>>

\* CollectionFasta.__getitems__
CF_getitems ==
    /\ result = NoCall
    /\ _indexes = <<>>
    /\ \E l \in Lists(CF_len(collection)) :
        /\ result' = Call("getitems", CollectionFastaT, ListArg(l),
                          getitems(objects, CollectionFastaT, l))
        /\ UNCHANGED <<fastas, _cumsum, _indexes>>

\* LazyFasta(nnfastas(files), indexes): a constructor that raises builds nothing
LF_init ==
    /\ result = NoCall
    /\ _indexes = <<>>
    /\ \E indexes \in SeqsOf(-1..dataset_len, 0, MaxIdx) :
        LET st == LazyFasta_init(dataset_len, indexes)
        IN  /\ result' = Call("init", LazyFastaT, ListArg(indexes),
                              [st |-> st, val |-> <<>>, reads |-> 0])
            /\ _indexes' = IF st = "ok" THEN indexes ELSE <<>>
            /\ UNCHANGED <<fastas, _cumsum>>

\* LazyFasta.__getitem__
LF_getitem ==
    /\ result = NoCall
    /\ _indexes # <<>>
    /\ \E arg \in Args(LF_len(objects)) :
        /\ result' = Call("getitem", LazyFastaT, arg,
                          getitem(objects, LazyFastaT, arg))
        /\ UNCHANGED <<fastas, _cumsum, _indexes>>

\* LazyFasta.__getitems__
LF_getitems ==
    /\ result = NoCall
    /\ _indexes # <<>>
    /\ \E l \in Lists(LF_len(objects)) :
        /\ result' = Call("getitems", LazyFastaT, ListArg(l),
                          getitems(objects, LazyFastaT, l))
        /\ UNCHANGED <<fastas, _cumsum, _indexes>>

\* RandomFasta.get_idx called directly
RF_get ==
    /\ result = NoCall
    /\ \E k \in DOMAIN fastas : \E i \in Ints(RF_len(fastas[k])) :
        /\ result' = Call("get_idx", RandomFastaT(k), IntArg(i),
                          get(RandomFastaT(k), i))
        /\ UNCHANGED <<fastas, _cumsum, _indexes>>

\* CollectionFasta.get_idx called directly
CF_get ==
    /\ result = NoCall
    /\ \E i \in Ints(CF_len(collection)) :
        /\ result' = Call("get_idx", CollectionFastaT, IntArg(i),
                          get(CollectionFastaT, i))
        /\ UNCHANGED <<fastas, _cumsum, _indexes>>

\* the LazyFasta is dropped: it owns its index list and nothing else
LF_del ==
    /\ result = NoCall
    /\ _indexes # <<>>
    /\ _indexes' = <<>>
    /\ UNCHANGED <<fastas, _cumsum, result>>

\* the caller takes what the call returned or raised; calls come one at a time
Return ==
    /\ result # NoCall
    /\ result' = NoCall
    /\ UNCHANGED <<fastas, _cumsum, _indexes>>

Next ==
    \/ RF_getitem
    \/ RF_getitems
    \/ CF_getitem
    \/ CF_getitems
    \/ LF_init
    \/ LF_getitem
    \/ LF_getitems
    \/ LF_del
    \/ RF_get
    \/ CF_get
    \/ Return

Spec == Init /\ [][Next]_vars

NextParse == RF_get \/ Return

SpecParse == InitParse /\ [][NextParse]_vars

----------------------------------------------------------------------------
(* Vocabulary of the properties *)

IsCall(ops, type) == result.op \in ops /\ result.arg.type = type

AccessOps == {"getitem", "getitems", "get_idx"}

\* the collections that can be read in the current state
Targets ==
    {RandomFastaT(k) : k \in DOMAIN fastas} \cup {CollectionFastaT}
        \cup (IF _indexes # <<>> THEN {LazyFastaT} ELSE {})

\* position-by-position reading of a list of positions, stated without get_each:
\* all records in order when every get succeeds, an exception otherwise
Pointwise(t, ps, out) ==
    IF \A j \in DOMAIN ps : get(t, ps[j]).st = "ok"
    THEN /\ out.st = "ok"
         /\ Len(out.val) = Len(ps)
         /\ \A j \in DOMAIN ps : <<out.val[j]>> = get(t, ps[j]).val
    ELSE out.st # "ok"

IsPrefix(a, b) == Len(a) <= Len(b) /\ SubSeq(b, 1, Len(a)) = a

\* offsets of the record markers of a file: a > that is the first byte or
\* follows a line terminator, in increasing order
Markers(b) == {p \in 0..(Len(b) - 1) : b[p + 1] = ">" /\ (p = 0 \/ b[p] \in {"\n", "\r"})}

RECURSIVE SortedSeq(_)
SortedSeq(S) ==
    IF S = {} THEN <<>>
    ELSE LET m == CHOOSE x \in S : \A y \in S : x <= y
         IN  <<m>> \o SortedSeq(S \ {m})

\* the header line of the record at marker offset m: the bytes after the
\* marker up to the first line terminator
HeaderAt(b, m) ==
    LET eols == {p \in m..(Len(b) - 1) : b[p + 1] \in {"\n", "\r"}}
    IN  IF eols = {} THEN Slice(b, m + 1, Len(b))
        ELSE Slice(b, m + 1, CHOOSE p \in eols : \A q \in eols : p <= q)

----------------------------------------------------------------------------
(* C1 *)

\* the smallest child k (0-based) with idx < cumulative[k]
SmallestChild(idx) ==
    CHOOSE k \in 0..(Len(_cumsum) - 1) :
        /\ idx < _cumsum[k + 1]
        /\ \A j \in 0..(k - 1) : ~(idx < _cumsum[j + 1])

ChildGet(idx) ==
    LET k == SmallestChild(idx)
    IN  RF_get_idx(fastas[k + 1], idx - (IF k = 0 THEN 0 ELSE _cumsum[k]))

\* C1: a CollectionFasta is the concatenation of its children: its length is
\* the sum of the children's lengths, and get(idx) for idx in [0, len) is the
\* get of child k at idx - cumulative[k-1], k the smallest child with
\* idx < cumulative[k]; a get that was called returned exactly that.
C1_Concatenation ==
    /\ CF_len(collection)
         = Cardinality({<<k, i>> \in (DOMAIN fastas) \X (0..CF_len(collection)) :
                            i < RF_len(fastas[k])})
    /\ result = NoCall =>
          \A idx \in 0..(CF_len(collection) - 1) :
              CF_get_idx(collection, idx) = ChildGet(idx)
    /\ (/\ IsCall({"getitem", "get_idx"}, "int")
        /\ result.target = CollectionFastaT
        /\ result.arg.idx \in 0..(CF_len(collection) - 1))
          => result.out = ChildGet(result.arg.idx)

\* two 2-record children, and get(3) returned the second child's record 1
C1_Witness ==
    /\ Len(fastas) = 2 /\ RF_len(fastas[1]) = 2 /\ RF_len(fastas[2]) = 2
    /\ IsCall({"getitem"}, "int") /\ result.target = CollectionFastaT
    /\ result.arg.idx = 3
    /\ result.out.st = "ok"
    /\ result.out = RF_get_idx(fastas[2], 1)

----------------------------------------------------------------------------
(* C2 *)

\* the positions s, s + step, ... below e
Stepped(s, e, step) ==
    LET n == Cardinality({p \in s..(e - 1) : (p - s) % step = 0})
    IN  [j \in 1..n |-> s + (j - 1) * step]

\* C2: range law: for 0 <= s <= e <= len, collection[s:e] (with a step >= 1,
\* 1 when left out) is the list of get over s, s + step, ... below e.
C2_RangeLaw ==
    (/\ IsCall({"getitem"}, "slice")
     /\ result.arg.stop # None
     /\ result.arg.idx <= result.arg.stop[1]
     /\ result.arg.stop[1] <= len(result.target))
       => Pointwise(result.target,
                    Stepped(result.arg.idx, result.arg.stop[1],
                            IF result.arg.step = None THEN 1 ELSE result.arg.step[1]),
                    result.out)

----------------------------------------------------------------------------
(* C3 *)

Str_seq1 == <<"s", "e", "q", "1">>
Str_seq2 == <<"s", "e", "q", "2">>
Str_desc1 == <<"s", "e", "q", "1", " ", "d", "e", "s", "c", " ", "o", "n", "e">>

\* C3: a record whose header has no whitespace is returned with id =
\* description = the header without the marker; the documented file has two
\* records, (seq1, "seq1 desc one", ACGTAC) and (seq2, seq2, GGTT).
C3_HeaderWithoutWhitespace ==
    LET rf == fastas[1]
        ms == SortedSeq(Markers(rf.fasta))
    IN  /\ rf.fasta = Scenario =>
              /\ RF_len(rf) = 2
              /\ RF_get_idx(rf, 0).val
                   = <<Record(Str_seq1, Str_desc1, <<"A", "C", "G", "T", "A", "C">>)>>
              /\ RF_get_idx(rf, 1).val
                   = <<Record(Str_seq2, Str_seq2, <<"G", "G", "T", "T">>)>>
        /\ \A i \in 0..(RF_len(rf) - 1) :
              LET h == HeaderAt(rf.fasta, ms[i + 1])
                  r == RF_get_idx(rf, i)
              IN  (/\ h # <<>>
                   /\ \A j \in DOMAIN h : IsWord(h[j])
                   /\ Len(h) < Len(rf.fasta) - ms[i + 1] - 1)
                     => /\ r.st = "ok"
                        /\ r.val[1].id = h
                        /\ r.val[1].description = h

----------------------------------------------------------------------------
(* C4 *)

\* C4: fancy access preserves order: collection[P] and __getitems__(P) over
\* valid positions P return len(P) records, the k-th being get(P[k]).
C4_FancyOrder ==
    IsCall({"getitem", "getitems"}, "list")
        => Pointwise(result.target, result.arg.list, result.out)

\* a list that goes back from one child of the collection to an earlier one
C4_Witness ==
    /\ IsCall({"getitem", "getitems"}, "list")
    /\ result.target = CollectionFastaT
    /\ Len(result.arg.list) >= 2
    /\ result.arg.list[1] > result.arg.list[2]
    /\ SmallestChild(result.arg.list[1]) # SmallestChild(result.arg.list[2])
    /\ result.out.st = "ok"
    /\ Len(result.out.val) = Len(result.arg.list)

----------------------------------------------------------------------------
(* C5 *)

Resolve(k, n) == IF k < 0 THEN n + k ELSE k

\* C5: LazyFasta(underlying, indexes) fails, at construction and without a
\* read, when indexes is empty or an entry is outside [0, len(underlying));
\* otherwise the view has the length of indexes and get(k) is
\* underlying.get(indexes[k]), a negative k resolved against len(indexes).
C5_PermutedView ==
    /\ IsCall({"init"}, "list") =>
          LET ix == result.arg.list
              bad == ix = <<>> \/ \E j \in DOMAIN ix : ~(0 <= ix[j] /\ ix[j] < dataset_len)
          IN  /\ result.out.reads = 0
              /\ bad => (result.out.st # "ok" /\ _indexes = <<>>)
              /\ ~bad => (result.out.st = "ok" /\ _indexes = ix)
    /\ (_indexes # <<>> /\ result = NoCall) =>
          /\ \A j \in DOMAIN _indexes : 0 <= _indexes[j] /\ _indexes[j] < dataset_len
          /\ len(LazyFastaT) = Len(_indexes)
          /\ \A k \in (0 - Len(_indexes))..(Len(_indexes) - 1) :
                get(LazyFastaT, k)
                  = dataset_getitem(_indexes[Resolve(k, Len(_indexes)) + 1])
    /\ (/\ IsCall({"getitem"}, "int")
        /\ result.target = LazyFastaT
        /\ result.arg.idx \in (0 - Len(_indexes))..(Len(_indexes) - 1))
          => result.out
               = dataset_getitem(_indexes[Resolve(result.arg.idx, Len(_indexes)) + 1])

\* a view that swaps two records was read at a negative position
C5_Witness ==
    /\ Len(_indexes) = 2 /\ _indexes[1] > _indexes[2]
    /\ IsCall({"getitem"}, "int") /\ result.target = LazyFastaT
    /\ result.arg.idx < 0
    /\ result.out.st = "ok"

----------------------------------------------------------------------------
(* C6 *)

\* C6: negative-index law: in a RandomFasta and in a CollectionFasta, for
\* every i in [1, len], get(-i) is get(len - i).
C6_NegativeIndex ==
    /\ result = NoCall =>
          /\ \A k \in DOMAIN fastas : \A i \in 1..RF_len(fastas[k]) :
                RF_get_idx(fastas[k], 0 - i)
                  = RF_get_idx(fastas[k], RF_len(fastas[k]) - i)
          /\ \A i \in 1..CF_len(collection) :
                CF_get_idx(collection, 0 - i)
                  = CF_get_idx(collection, CF_len(collection) - i)
    /\ (/\ IsCall({"getitem", "get_idx"}, "int")
        /\ result.target.kind \in {"RandomFasta", "CollectionFasta"}
        /\ result.arg.idx < 0
        /\ 0 - result.arg.idx <= len(result.target))
          => result.out = get(result.target, len(result.target) + result.arg.idx)

\* a negative position of a collection of several files returned a record
C6_Witness ==
    /\ IsCall({"getitem", "get_idx"}, "int")
    /\ result.target = CollectionFastaT
    /\ Len(fastas) >= 2
    /\ result.arg.idx < -1
    /\ result.out.st = "ok"

----------------------------------------------------------------------------
(* C7 *)

\* C7: every Record that get returns has a non-empty id, and its description
\* starts with its id, whatever whitespace the header holds.
C7_IdPrefixOfDescription ==
    \A i \in 0..(RF_len(fastas[1]) - 1) :
        LET r == RF_get_idx(fastas[1], i)
        IN  r.st = "ok" =>
              /\ r.val[1].id # <<>>
              /\ IsPrefix(r.val[1].id, r.val[1].description)

----------------------------------------------------------------------------
(* C8 *)

\* C8: get(i) with i >= len or i < -len fails with an index error in all
\* three classes, and no mmap is sliced before it fails.
C8_FailBeforeRead ==
    /\ result = NoCall =>
          \A t \in Targets : \A i \in {len(t), 0 - len(t) - 1} :
              get(t, i).st \in {"IndexError", "ValueError"} /\ get(t, i).reads = 0
    /\ (/\ IsCall({"getitem", "get_idx"}, "int")
        /\ (result.arg.idx >= len(result.target)
              \/ result.arg.idx < 0 - len(result.target)))
          => /\ result.out.st \in {"IndexError", "ValueError"}
             /\ result.out.reads = 0

\* a RandomFasta was read one past its end
C8_Witness ==
    /\ IsCall({"getitem", "get_idx"}, "int")
    /\ result.target.kind = "RandomFasta"
    /\ result.arg.idx = len(result.target)
    /\ result.out.st = "IndexError"

----------------------------------------------------------------------------
(* C9 *)

\* what get returns at every position of a target, in range or not
GetAll(o, t) == [i \in Ints(len_of(o, t)) |-> get_of(o, t, i)]

\* the state after a step
objects_next == [fastas |-> fastas', _cumsum |-> _cumsum', _indexes |-> _indexes']

\* C9: a step of an access (the call or its return), failed or not, leaves
\* the span tables, the cumulative table and the index list as they were; so
\* the same call made again returns the same, and after a failed access get
\* returns at every position of the collection what it returned before.
C9_AccessFrame ==
    [][/\ (result'.op \in AccessOps \/ result.op \in AccessOps)
            => /\ fastas' = fastas
               /\ _cumsum' = _cumsum
               /\ _indexes' = _indexes
       /\ (result'.op \in {"getitem", "get_idx"} /\ result.op = "none")
            => result'.out = getitem(objects_next, result'.target, result'.arg)
       /\ (result'.op = "getitems" /\ result.op = "none")
            => result'.out = getitems(objects_next, result'.target, result'.arg.list)
       /\ (result'.op \in AccessOps /\ result.op = "none" /\ result'.out.st # "ok")
            => GetAll(objects_next, result'.target) = GetAll(objects, result'.target)
      ]_vars

\* an access read a span and failed on it while another position is readable
C9_Witness ==
    /\ result.op \in AccessOps
    /\ result.out.st = "ValueError"
    /\ result.out.reads >= 1
    /\ \E i \in 0..(CF_len(collection) - 1) : CF_get_idx(collection, i).st = "ok"

----------------------------------------------------------------------------
(* C10 *)

\* C10 as stated: span i starts at the offset of marker i, ends where span
\* i + 1 starts, and the last span ends at the end of the file.
C10_SpansMarkerToMarker ==
    LET rf == fastas[1]
        ms == SortedSeq(Markers(rf.fasta))
    IN  /\ Len(rf.pos) = Len(ms)
        /\ \A i \in DOMAIN rf.pos :
              /\ rf.pos[i][1] = ms[i]
              /\ i < Len(rf.pos) => rf.pos[i][2] = rf.pos[i + 1][1]
        /\ rf.pos[Len(rf.pos)][2] = Len(rf.fasta)

\* C10 amended: span i starts one byte after marker i and ends at the line
\* terminator before marker i + 1, two bytes before span i + 1 starts; the
\* last span ends at the end of the file; every byte after the first marker
\* lies in exactly one span, but for the later markers and the line
\* terminator before each, which lie in none.
C10_SpansBetweenMarkers ==
    LET rf == fastas[1]
        ms == SortedSeq(Markers(rf.fasta))
        n == Len(rf.pos)
        inside(p) == {i \in DOMAIN rf.pos : rf.pos[i][1] <= p /\ p < rf.pos[i][2]}
    IN  /\ n = Len(ms)
        /\ \A i \in DOMAIN rf.pos :
              /\ rf.pos[i][1] = ms[i] + 1
              /\ rf.pos[i][1] <= rf.pos[i][2]
              /\ i < n => /\ rf.pos[i][2] = ms[i + 1] - 1
                          /\ rf.pos[i][2] + 2 = rf.pos[i + 1][1]
                          /\ rf.fasta[rf.pos[i][2] + 1] \in {"\n", "\r"}
        /\ rf.pos[n][2] = Len(rf.fasta)
        /\ \A p \in (ms[1] + 1)..(Len(rf.fasta) - 1) :
              IF \E i \in 2..n : p \in {ms[i] - 1, ms[i]}
              THEN inside(p) = {}
              ELSE Cardinality(inside(p)) = 1

\* a file of several records whose first marker is not its first byte
C10_Witness ==
    /\ Len(fastas[1].pos) >= 2
    /\ fastas[1].pos[1][1] > 1
    /\ fastas[1].pos[1][2] > fastas[1].pos[1][1]

====
